---------------------------- MODULE Spec2Model ----------------------------
(***************************************************************************)
(* Learn Anything API: the track/lesson catalog (ensure-track, seed-lessons,*)
(* create-track) and the per-learner progress engine (next-lesson,          *)
(* attempts) of server.js over the tables of schema.sql.                    *)
(*                                                                          *)
(* Every route handler is one action.  The tables are the variables users,  *)
(* tracks, lessons, attempts and user_track_state; resp is the response the *)
(* last request received (or "unhandled" when the handler's promise         *)
(* rejected outside any try/catch, so that Express never answered) and req  *)
(* is that request.                                                         *)
(*                                                                          *)
(* Requests that overlap in time are handlers running statement by          *)
(* statement: calls[c] is the position of call c between two awaits, with  *)
(* its local variables, and each database statement is one action.          *)
(***************************************************************************)
EXTENDS Integers, Sequences, FiniteSets, TLC

VARIABLES users, tracks, lessons, attempts, user_track_state, clock, req, resp,
          calls

vars == <<users, tracks, lessons, attempts, user_track_state, clock, req, resp,
          calls>>

-----------------------------------------------------------------------------
(* Bounds of the model *)

\* attempts rows a behaviour may insert
MaxAttempts == 2
\* readings of now() that are written to last_seen
MaxClock == 3
\* largest lesson_order a seed request carries
MaxOrder == 3
\* requests in flight at the same time
MaxCalls == 2

-----------------------------------------------------------------------------
(* Values *)

\* SQL NULL in a text/uuid column, JSON null in a payload
NULL == "null"
\* a missing query parameter (undefined or "": both are falsy in ensureUser)
Missing == ""

\* well-formed uuids a client may present or gen_random_uuid() may draw
UserIds == {"u1", "u2"}
\* a string that is no uuid
BadUuid == "not-a-uuid"

\* nullable numeric columns: NULL is None, a value v is Some(v)
None == {}
Some(v) == {v}

\* slugs as callers send them; ToLower is String.prototype.toLowerCase on them
RawSlugs == {"py", "PY"}
\* a well-formed slug no track is declared under
UnknownSlug == "go"
\* a slug zod rejects (shorter than 2 characters)
ShortSlug == "x"
\* a slug with a leading blank, as a caller may send it
PaddedSlug == " PY"
ToLower(s) == IF s = "PY" THEN "py" ELSE IF s = " PY" THEN " py" ELSE s

ADMIN_KEY == "k1"
WrongKey == "k0"

Pick(S) == CHOOSE x \in S : TRUE

\* the requests in flight, and a slot with none
CallIds == 1..MaxCalls
Idle == [pc |-> "idle"]

\* the largest member of a set of numbers
SetMax(S) == CHOOSE x \in S : \A y \in S : y <= x

\* b with key k set to v (the object literal {...b, k: v})
With(b, k, v) == [x \in DOMAIN b \cup {k} |-> IF x = k THEN v ELSE b[x]]
\* the payloads of base, each also with every value of vals under key k
Opt(base, k, vals) == base \cup {With(b, k, v) : b \in base, v \in vals}
Has(p, k) == k \in DOMAIN p

-----------------------------------------------------------------------------
(* helpers of server.js *)

\* ensureUser that takes the INSERT ... DEFAULT VALUES branch whatever it is
\* given
ensureUserFresh(userId) == {<<u, users \cup {u}>> : u \in UserIds \ users}

\* ensureUser(userId): the set of <<returned id, users table afterwards>>.
\* A missing id inserts a row with a fresh uuid; a present id is inserted
\* when no row has it.
ensureUser(userId) ==
  IF userId = Missing
    THEN {<<u, users \cup {u}>> : u \in UserIds \ users}
    ELSE {<<userId, users \cup {userId}>>}

\* the SELECT without its WHERE clause
getTrackNoWhere(slug) == tracks

getTrackBySlug(slug) == {t \in tracks : t.slug = slug}

\* requireAdminKey: the status it answers with, "next" when it calls next()
requireAdminKey(providedKey) ==
  IF ADMIN_KEY = Missing THEN "500"
  ELSE IF providedKey # ADMIN_KEY THEN "401"
  ELSE "next"

-----------------------------------------------------------------------------
(* POST /v1/internal/ensure-track *)

TrackTypes == {"official", "custom"}
Statuses == {"draft", "active", "archived"}
GoodUrl == "https://docs.python.org/3/"
BadUrl == "not a url"

\* the zod schema of ensure-track
EnsureTrackValid(p) ==
  /\ p.slug # ShortSlug
  /\ Has(p, "official_sources") =>
       \A i \in 1..Len(p.official_sources) : p.official_sources[i] # BadUrl
  /\ Has(p, "track_type") => p.track_type \in TrackTypes
  /\ Has(p, "owner_user_id") => p.owner_user_id \in UserIds \cup {NULL}
  /\ Has(p, "status") => p.status \in Statuses

\* the VALUES clause with COALESCE($6, 'active') and COALESCE($4, 'official')
ExcludedTrackOtherDefaults(slug, p) ==
  [id               |-> Cardinality(tracks) + 1,
   slug             |-> slug,
   title            |-> p.title,
   official_sources |-> IF Has(p, "official_sources") THEN p.official_sources ELSE <<>>,
   track_type       |-> IF Has(p, "track_type") THEN p.track_type ELSE "official",
   owner_user_id    |-> IF Has(p, "owner_user_id") THEN p.owner_user_id ELSE NULL,
   status           |-> IF Has(p, "status") THEN p.status ELSE "active"]

\* the row of the VALUES clause (EXCLUDED in the DO UPDATE branch)
ExcludedTrack(slug, p) ==
  [id               |-> Cardinality(tracks) + 1,
   slug             |-> slug,
   title            |-> p.title,
   official_sources |-> IF Has(p, "official_sources") THEN p.official_sources ELSE <<>>,
   track_type       |-> IF Has(p, "track_type") THEN p.track_type ELSE "custom",
   owner_user_id    |-> IF Has(p, "owner_user_id") THEN p.owner_user_id ELSE NULL,
   status           |-> IF Has(p, "status") THEN p.status ELSE "draft"]

\* DO UPDATE SET every column = EXCLUDED's, without the CASE WHEN $n guards
MergeTrackOverwrite(old, p) ==
  [ExcludedTrack(old.slug, p) EXCEPT !.id = old.id]

\* a replace in place of an update: the row is deleted and inserted again,
\* under a new id
MergeTrackReplace(old, p) ==
  LET ex == ExcludedTrack(old.slug, p) IN
  [id               |-> old.id + 1,
   slug             |-> old.slug,
   title            |-> ex.title,
   official_sources |-> IF Has(p, "official_sources") THEN ex.official_sources
                                                       ELSE old.official_sources,
   track_type       |-> IF Has(p, "track_type") THEN ex.track_type ELSE old.track_type,
   owner_user_id    |-> IF Has(p, "owner_user_id") THEN ex.owner_user_id
                                                    ELSE old.owner_user_id,
   status           |-> IF Has(p, "status") THEN ex.status ELSE old.status]

\* ON CONFLICT (slug) DO UPDATE SET ...
MergeTrack(old, p) ==
  LET ex == ExcludedTrack(old.slug, p) IN
  [id               |-> old.id,
   slug             |-> old.slug,
   title            |-> ex.title,
   official_sources |-> IF Has(p, "official_sources") THEN ex.official_sources
                                                       ELSE old.official_sources,
   track_type       |-> IF Has(p, "track_type") THEN ex.track_type ELSE old.track_type,
   owner_user_id    |-> IF Has(p, "owner_user_id") THEN ex.owner_user_id
                                                    ELSE old.owner_user_id,
   status           |-> IF Has(p, "status") THEN ex.status ELSE old.status]

\* INSERT ... ON CONFLICT (slug) DO UPDATE ... RETURNING: the saved row
SavedTrack(slug, p) ==
  LET existing == getTrackBySlug(slug) IN
  IF existing = {} THEN ExcludedTrack(slug, p) ELSE MergeTrack(Pick(existing), p)

EnsureTrack(key, p) ==
  LET gate == requireAdminKey(key) IN
  /\ req' = [op |-> "ensure-track", key |-> key, body |-> p]
  /\ UNCHANGED calls
  /\ IF gate # "next" THEN
       /\ resp' = [op |-> "ensure-track", status |-> gate]
       /\ UNCHANGED <<users, tracks, lessons, attempts, user_track_state, clock>>
     ELSE IF ~EnsureTrackValid(p) THEN
       /\ resp' = [op |-> "ensure-track", status |-> "400"]
       /\ UNCHANGED <<users, tracks, lessons, attempts, user_track_state, clock>>
     ELSE
       LET slug     == ToLower(p.slug)
           existing == getTrackBySlug(slug)
           saved    == SavedTrack(slug, p)
       IN
       /\ IF Has(p, "owner_user_id") /\ p.owner_user_id # NULL
            THEN \E r \in ensureUser(p.owner_user_id) : users' = r[2]
            ELSE users' = users
       /\ tracks' = (tracks \ existing) \cup {saved}
       /\ resp' = [op      |-> "ensure-track",
                   status  |-> IF existing = {} THEN "201" ELSE "200",
                   created |-> existing = {},
                   track   |-> saved]
       /\ UNCHANGED <<lessons, attempts, user_track_state, clock>>

-----------------------------------------------------------------------------
(* POST /v1/tracks *)

CreateTrackValid(p) ==
  /\ p.slug # ShortSlug
  /\ Has(p, "official_sources") =>
       \A i \in 1..Len(p.official_sources) : p.official_sources[i] # BadUrl

\* INSERT INTO tracks (slug, title, official_sources): the other columns take
\* their DEFAULTs
InsertedTrack(p) ==
  [id               |-> Cardinality(tracks) + 1,
   slug             |-> ToLower(p.slug),
   title            |-> p.title,
   official_sources |-> IF Has(p, "official_sources") THEN p.official_sources ELSE <<>>,
   track_type       |-> "custom",
   owner_user_id    |-> NULL,
   status           |-> "draft"]

\* the route is registered before app.use("/v1/internal", requireAdminKey):
\* the X-ADMIN-KEY header of the request is not read
CreateTrack(key, p) ==
  /\ req' = [op |-> "create-track", key |-> key, body |-> p]
  /\ UNCHANGED calls
  /\ IF ~CreateTrackValid(p) \/ getTrackBySlug(ToLower(p.slug)) # {} THEN
       \* zod's 400, or the UNIQUE(slug) violation caught by the handler
       /\ resp' = [op |-> "create-track", status |-> "400"]
       /\ UNCHANGED <<users, tracks, lessons, attempts, user_track_state, clock>>
     ELSE
       /\ tracks' = tracks \cup {InsertedTrack(p)}
       /\ resp' = [op |-> "create-track", status |-> "201", track |-> InsertedTrack(p)]
       /\ UNCHANGED <<users, lessons, attempts, user_track_state, clock>>

-----------------------------------------------------------------------------
(* POST /v1/internal/seed-lessons *)

ShortTitle == "x"
\* a title holding the character U+0000: a string to zod, no value of a TEXT
\* column
NulTitle == "a<U+0000>b"

\* the INSERT is accepted by the lessons table
Storable(lesson) == lesson.title # NulTitle

SeedLessonsValid(p) ==
  /\ p.track_slug # ShortSlug
  /\ Len(p.lessons) >= 1
  /\ \A i \in 1..Len(p.lessons) :
       /\ p.lessons[i].lesson_order >= 1
       /\ p.lessons[i].title # ShortTitle
       /\ \A j \in 1..Len(p.lessons[i].source_urls) :
            p.lessons[i].source_urls[j] # BadUrl

\* a DO UPDATE that merges: an empty objectives list keeps the stored one
UpsertedLessonMerge(ls, track_id, lesson) ==
  LET old == {l \in ls : l.track_id = track_id /\ l.lesson_order = lesson.lesson_order} IN
  [id           |-> IF old = {} THEN Cardinality(ls) + 1 ELSE Pick(old).id,
   track_id     |-> track_id,
   lesson_order |-> lesson.lesson_order,
   title        |-> lesson.title,
   objectives   |-> IF old # {} /\ lesson.objectives = <<>>
                      THEN Pick(old).objectives ELSE lesson.objectives,
   tags         |-> lesson.tags,
   source_urls  |-> lesson.source_urls]

\* a DELETE and INSERT in place of DO UPDATE: the row gets a new id
UpsertedLessonReinsert(ls, track_id, lesson) ==
  [id           |-> SetMax({0} \cup {l.id : l \in ls}) + 1,
   track_id     |-> track_id,
   lesson_order |-> lesson.lesson_order,
   title        |-> lesson.title,
   objectives   |-> lesson.objectives,
   tags         |-> lesson.tags,
   source_urls  |-> lesson.source_urls]

\* INSERT INTO lessons ... ON CONFLICT (track_id, lesson_order) DO UPDATE:
\* the row the statement leaves in the table ls
UpsertedLesson(ls, track_id, lesson) ==
  LET old == {l \in ls : l.track_id = track_id /\ l.lesson_order = lesson.lesson_order} IN
  [id           |-> IF old = {} THEN SetMax({0} \cup {l.id : l \in ls}) + 1 ELSE Pick(old).id,
   track_id     |-> track_id,
   lesson_order |-> lesson.lesson_order,
   title        |-> lesson.title,
   objectives   |-> lesson.objectives,
   tags         |-> lesson.tags,
   source_urls  |-> lesson.source_urls]

UpsertLesson(ls, track_id, lesson) ==
  {l \in ls : ~(l.track_id = track_id /\ l.lesson_order = lesson.lesson_order)}
    \cup {UpsertedLesson(ls, track_id, lesson)}

\* the for loop between BEGIN and COMMIT: the table after the first n upserts
RECURSIVE SeedLoop(_, _, _, _)
SeedLoop(ls, track_id, list, n) ==
  IF n = 0 THEN ls
  ELSE UpsertLesson(SeedLoop(ls, track_id, list, n - 1), track_id, list[n])

\* seeded: the RETURNING id, lesson_order, title of each upsert, in order
Seeded(ls, track_id, list) ==
  [i \in 1..Len(list) |->
     LET row == UpsertedLesson(SeedLoop(ls, track_id, list, i - 1), track_id, list[i])
     IN [id |-> row.id, lesson_order |-> row.lesson_order, title |-> row.title]]

\* a failed upsert without ROLLBACK: the earlier upserts of the call stay
NotRolledBack(before, partial) == partial

\* catch: ROLLBACK, the table is as it was at BEGIN
RolledBack(before, partial) == before

SeedLessons(key, p) ==
  LET gate == requireAdminKey(key) IN
  /\ req' = [op |-> "seed-lessons", key |-> key, body |-> p]
  /\ UNCHANGED calls
  /\ IF gate # "next" THEN
       /\ resp' = [op |-> "seed-lessons", status |-> gate]
       /\ UNCHANGED <<users, tracks, lessons, attempts, user_track_state, clock>>
     ELSE IF ~SeedLessonsValid(p) THEN
       /\ resp' = [op |-> "seed-lessons", status |-> "400"]
       /\ UNCHANGED <<users, tracks, lessons, attempts, user_track_state, clock>>
     ELSE IF getTrackBySlug(ToLower(p.track_slug)) = {} THEN
       /\ resp' = [op |-> "seed-lessons", status |-> "404"]
       /\ UNCHANGED <<users, tracks, lessons, attempts, user_track_state, clock>>
     ELSE IF \E i \in 1..Len(p.lessons) : ~Storable(p.lessons[i]) THEN
       \* the upserts before the first rejected one run, then the catch block
       LET track == Pick(getTrackBySlug(ToLower(p.track_slug)))
           first == CHOOSE i \in 1..Len(p.lessons) :
                      /\ ~Storable(p.lessons[i])
                      /\ \A j \in 1..(i - 1) : Storable(p.lessons[j])
       IN
       /\ lessons' = RolledBack(lessons, SeedLoop(lessons, track.id, p.lessons, first - 1))
       /\ resp' = [op |-> "seed-lessons", status |-> "400"]
       /\ UNCHANGED <<users, tracks, attempts, user_track_state, clock>>
     ELSE
       LET track == Pick(getTrackBySlug(ToLower(p.track_slug))) IN
       /\ lessons' = SeedLoop(lessons, track.id, p.lessons, Len(p.lessons))
       /\ resp' = [op                  |-> "seed-lessons",
                   status              |-> "200",
                   track               |-> [id |-> track.id, slug |-> track.slug,
                                            title |-> track.title],
                   inserted_or_updated |-> Len(p.lessons),
                   lessons             |-> Seeded(lessons, track.id, p.lessons)]
       /\ UNCHANGED <<users, tracks, attempts, user_track_state, clock>>

-----------------------------------------------------------------------------
(* scripts/seed-demo.js *)

DemoSlug == "python-basics"
DemoSource == "https://docs.python.org/3/tutorial/"

\* INSERT INTO tracks ... 'official', 'active' ON CONFLICT (slug) DO UPDATE SET
\* title, official_sources, track_type, status: the row the statement leaves
DemoTrack ==
  LET existing == getTrackBySlug(DemoSlug) IN
  [id               |-> IF existing = {} THEN Cardinality(tracks) + 1
                                          ELSE Pick(existing).id,
   slug             |-> DemoSlug,
   title            |-> "Python Basics",
   official_sources |-> <<DemoSource>>,
   track_type       |-> "official",
   owner_user_id    |-> IF existing = {} THEN NULL ELSE Pick(existing).owner_user_id,
   status           |-> "active"]

\* the three lessons of the script
DemoLessons ==
  <<[lesson_order |-> 1, title |-> "Install Python and run your first script",
     objectives |-> <<"Install Python", "Run a hello world script">>,
     tags |-> <<"setup", "syntax">>,
     source_urls |-> <<"https://docs.python.org/3/tutorial/interpreter.html">>],
    [lesson_order |-> 2, title |-> "Variables, types, and control flow",
     objectives |-> <<"Use variables", "Write if/else and loops">>,
     tags |-> <<"fundamentals">>,
     source_urls |-> <<"https://docs.python.org/3/tutorial/introduction.html">>],
    [lesson_order |-> 3, title |-> "Functions and modules",
     objectives |-> <<"Define functions", "Import modules">>,
     tags |-> <<"functions", "modules">>,
     source_urls |-> <<"https://docs.python.org/3/tutorial/modules.html">>]>>

\* run(): the track upsert, then one lesson upsert per lesson, then exit 0
SeedDemo ==
  /\ req' = [op |-> "seed-demo"]
  /\ UNCHANGED calls
  /\ tracks' = (tracks \ getTrackBySlug(DemoSlug)) \cup {DemoTrack}
  /\ lessons' = SeedLoop(lessons, DemoTrack.id, DemoLessons, Len(DemoLessons))
  /\ resp' = [op |-> "seed-demo", status |-> "exit 0",
              track_slug |-> DemoTrack.slug, lessons_seeded |-> Len(DemoLessons)]
  /\ UNCHANGED <<users, attempts, user_track_state, clock>>

-----------------------------------------------------------------------------
(* GET /v1/me *)

Me(user_id) ==
  /\ req' = [op |-> "me", user_id |-> user_id]
  /\ UNCHANGED calls
  /\ IF user_id = BadUuid THEN
       \* SELECT ... WHERE id = $1 fails on the uuid cast; nothing catches it
       /\ resp' = [op |-> "me", status |-> "unhandled"]
       /\ UNCHANGED <<users, tracks, lessons, attempts, user_track_state, clock>>
     ELSE
       \E r \in ensureUser(user_id) :
         /\ users' = r[2]
         /\ resp' = [op |-> "me", status |-> "200", user_id |-> r[1]]
         /\ UNCHANGED <<tracks, lessons, attempts, user_track_state, clock>>

-----------------------------------------------------------------------------
(* GET /v1/lessons/next *)

StateRows(user_id, track_id) ==
  {s \in user_track_state : s.user_id = user_id /\ s.track_id = track_id}

\* a DO UPDATE that also sets current_lesson_order back to its default
TouchStateReset(user_id, track_id, now) ==
  {s \in user_track_state : ~(s.user_id = user_id /\ s.track_id = track_id)}
    \cup {[user_id |-> user_id, track_id |-> track_id,
           current_lesson_order |-> 1, last_seen |-> now]}

\* INSERT INTO user_track_state (user_id, track_id, last_seen) ...
\* ON CONFLICT (user_id, track_id) DO UPDATE SET last_seen = now()
TouchState(user_id, track_id, now) ==
  LET old == StateRows(user_id, track_id) IN
  IF old = {}
    THEN user_track_state \cup
           {[user_id |-> user_id, track_id |-> track_id,
             current_lesson_order |-> 1, last_seen |-> now]}
    ELSE (user_track_state \ old) \cup
           {[s EXCEPT !.last_seen = now] : s \in old}

\* the SELECT with lesson_order >= $2 ORDER BY lesson_order LIMIT 1
lessonResOrLater(track_id, currentOrder) ==
  {l \in lessons :
     /\ l.track_id = track_id
     /\ l.lesson_order >= currentOrder
     /\ \A o \in lessons :
          (o.track_id = track_id /\ o.lesson_order >= currentOrder)
            => o.lesson_order >= l.lesson_order}

\* SELECT id, lesson_order, ... FROM lessons WHERE track_id = $1 AND lesson_order = $2
lessonRes(track_id, currentOrder) ==
  {l \in lessons : l.track_id = track_id /\ l.lesson_order = currentOrder}

NextLesson(trackSlug, user_id) ==
  /\ req' = [op |-> "next-lesson", track |-> trackSlug, user_id |-> user_id]
  /\ UNCHANGED calls
  /\ IF trackSlug = Missing THEN
       /\ resp' = [op |-> "next-lesson", status |-> "400"]
       /\ UNCHANGED <<users, tracks, lessons, attempts, user_track_state, clock>>
     ELSE IF user_id = BadUuid THEN
       /\ resp' = [op |-> "next-lesson", status |-> "unhandled"]
       /\ UNCHANGED <<users, tracks, lessons, attempts, user_track_state, clock>>
     ELSE
       \E r \in ensureUser(user_id) :
         /\ users' = r[2]
         /\ IF getTrackBySlug(ToLower(trackSlug)) = {} THEN
              /\ resp' = [op |-> "next-lesson", status |-> "404"]
              /\ UNCHANGED <<tracks, lessons, attempts, user_track_state, clock>>
            ELSE
              LET track        == Pick(getTrackBySlug(ToLower(trackSlug)))
                  now          == clock + 1
                  state        == TouchState(r[1], track.id, now)
                  currentOrder == Pick({s \in state : s.user_id = r[1]
                                           /\ s.track_id = track.id}).current_lesson_order
              IN
              /\ clock < MaxClock
              /\ clock' = now
              /\ user_track_state' = state
              /\ resp' = [op          |-> "next-lesson",
                          status      |-> "200",
                          user_id     |-> r[1],
                          track       |-> track,
                          next_lesson |-> lessonRes(track.id, currentOrder)]
              /\ UNCHANGED <<tracks, lessons, attempts>>

-----------------------------------------------------------------------------
(* POST /v1/attempts *)

AttemptTypes == {"quiz", "challenge", "project"}
PassPercent == 70

\* the zod schema of attempts; lesson id 0 stands for a string that is no uuid
AttemptValid(body) ==
  /\ Has(body, "user_id") => body.user_id \in UserIds
  /\ body.lesson_id >= 1
  /\ body.attempt_type \in AttemptTypes

\* the pass rule with pct > 70 in place of pct >= 70
PassedAbove(body) ==
  /\ Has(body, "score")
  /\ Has(body, "max_score")
  /\ body.max_score > 0
  /\ body.score * 100 > PassPercent * body.max_score

\* the pass rule without the percentage test
PassedAnyScore(body) ==
  /\ Has(body, "score")
  /\ Has(body, "max_score")
  /\ body.max_score > 0

\* body.score != null && body.max_score != null && body.max_score > 0
\*   && (body.score / body.max_score) * 100 >= 70
Passed(body) ==
  /\ Has(body, "score")
  /\ Has(body, "max_score")
  /\ body.max_score > 0
  /\ body.score * 100 >= PassPercent * body.max_score

\* the UPDATE with SET last_seen = now() alone
AdvanceTouchOnly(user_id, track_id, order, now) ==
  {IF s.user_id = user_id /\ s.track_id = track_id
     THEN [s EXCEPT !.last_seen = now]
     ELSE s : s \in user_track_state}

\* the UPDATE with SET current_lesson_order = $3, without GREATEST
AdvanceOverwrite(user_id, track_id, order, now) ==
  {IF s.user_id = user_id /\ s.track_id = track_id
     THEN [s EXCEPT !.current_lesson_order = order, !.last_seen = now]
     ELSE s : s \in user_track_state}

\* UPDATE user_track_state SET current_lesson_order = GREATEST(current_lesson_order, $3),
\*   last_seen = now() WHERE user_id = $1 AND track_id = $2
Advance(user_id, track_id, order, now) ==
  {IF s.user_id = user_id /\ s.track_id = track_id
     THEN [s EXCEPT !.current_lesson_order = IF @ >= order THEN @ ELSE order,
                    !.last_seen = now]
     ELSE s : s \in user_track_state}

AttemptRow(user_id, body) ==
  [id           |-> Cardinality(attempts) + 1,
   user_id      |-> user_id,
   lesson_id    |-> body.lesson_id,
   attempt_type |-> body.attempt_type,
   score        |-> IF Has(body, "score") THEN Some(body.score) ELSE None,
   max_score    |-> IF Has(body, "max_score") THEN Some(body.max_score) ELSE None]

\* an INSERT that keeps only the attempts that pass
InsertAttemptIfPassed(user_id, body) ==
  IF Passed(body) THEN attempts \cup {AttemptRow(user_id, body)} ELSE attempts

\* INSERT INTO attempts ... RETURNING id, created_at: the table afterwards
InsertAttempt(user_id, body) == attempts \cup {AttemptRow(user_id, body)}

RecordAttempt(body) ==
  /\ req' = [op |-> "attempt", body |-> body]
  /\ UNCHANGED calls
  /\ IF ~AttemptValid(body) THEN
       /\ resp' = [op |-> "attempt", status |-> "400"]
       /\ UNCHANGED <<users, tracks, lessons, attempts, user_track_state, clock>>
     ELSE
       \E r \in ensureUser(IF Has(body, "user_id") THEN body.user_id ELSE Missing) :
         /\ users' = r[2]
         /\ IF \A l \in lessons : l.id # body.lesson_id THEN
              \* attempts.lesson_id REFERENCES lessons(id): the INSERT is rejected
              \* and the rejection leaves the handler, which has no try/catch
              /\ resp' = [op |-> "attempt", status |-> "unhandled"]
              /\ UNCHANGED <<tracks, lessons, attempts, user_track_state, clock>>
            ELSE
              LET created  == AttemptRow(r[1], body)
                  lesson   == Pick({l \in lessons : l.id = body.lesson_id})
                  hit      == Passed(body) /\ StateRows(r[1], lesson.track_id) # {}
              IN
              /\ Cardinality(attempts) < MaxAttempts
              /\ attempts' = InsertAttempt(r[1], body)
              /\ IF hit
                   THEN /\ clock < MaxClock
                        /\ clock' = clock + 1
                        /\ user_track_state' =
                             Advance(r[1], lesson.track_id, lesson.lesson_order + 1, clock + 1)
                   ELSE UNCHANGED <<user_track_state, clock>>
              /\ resp' = [op         |-> "attempt",
                          status     |-> "200",
                          user_id    |-> r[1],
                          attempt_id |-> created.id,
                          advanced   |-> Passed(body)]
              /\ UNCHANGED <<tracks, lessons>>

-----------------------------------------------------------------------------
(* Overlapping requests: the handlers statement by statement *)

\* call c moves to position rec
Goto(c, rec) == calls' = [calls EXCEPT ![c] = rec]
\* the call has ended with response (or failure) r
Done(k, r) == [With(k, "resp", r) EXCEPT !.pc = "done"]

\* where a handler goes on after await ensureUser(...)
After(op) ==
  CASE op = "ensure-track" -> "existing"
    [] op = "me"           -> "count"
    [] op = "next-lesson"  -> "getTrackBySlug"
    [] op = "attempt"      -> "insert"

\* a statement of the handler threw: ensure-track catches it and answers 400,
\* the other handlers that call ensureUser have no try/catch
Thrown(op) ==
  [op |-> op, status |-> IF op = "ensure-track" THEN "400" ELSE "unhandled"]

\* the ids that requests in progress were given: the DEFAULT of users.id, a
\* random uuid, is none of them
GivenIds ==
  {calls[d].userId : d \in {e \in CallIds : "userId" \in DOMAIN calls[e]}}

\* ensureUser, first statement: INSERT ... DEFAULT VALUES for a missing id,
\* SELECT id FROM users WHERE id = $1 otherwise
EnsureUserSelect(c) ==
  LET k == calls[c] IN
  /\ k.pc = "ensureUser"
  /\ IF k.userId = Missing THEN
       \E u \in UserIds \ (users \cup GivenIds) :
         /\ users' = users \cup {u}
         /\ Goto(c, [k EXCEPT !.pc = After(k.op), !.userId = u])
     ELSE IF k.userId = BadUuid THEN
       /\ users' = users
       /\ Goto(c, Done(k, Thrown(k.op)))
     ELSE
       /\ users' = users
       /\ Goto(c, [k EXCEPT !.pc = IF k.userId \in users THEN After(k.op)
                                                          ELSE "ensureUser.insert"])
  /\ UNCHANGED <<tracks, lessons, attempts, user_track_state, clock, req, resp>>

\* ensureUser, after found.rowCount === 0: INSERT INTO users (id) VALUES ($1),
\* which the primary key rejects when the row has appeared since the SELECT
EnsureUserInsert(c) ==
  LET k == calls[c] IN
  /\ k.pc = "ensureUser.insert"
  /\ IF k.userId \in users THEN
       /\ users' = users
       /\ Goto(c, Done(k, Thrown(k.op)))
     ELSE
       /\ users' = users \cup {k.userId}
       /\ Goto(c, [k EXCEPT !.pc = After(k.op)])
  /\ UNCHANGED <<tracks, lessons, attempts, user_track_state, clock, req, resp>>

\* ensure-track, behind requireAdminKey: the zod parse, up to the first await
EnsureTrackStart(c, p) ==
  LET k == [pc |-> "existing", op |-> "ensure-track", body |-> p, userId |-> Missing] IN
  /\ calls[c] = Idle
  /\ IF ~EnsureTrackValid(p) THEN
       Goto(c, Done(k, [op |-> "ensure-track", status |-> "400"]))
     ELSE IF Has(p, "owner_user_id") /\ p.owner_user_id # NULL THEN
       Goto(c, [k EXCEPT !.pc = "ensureUser", !.userId = p.owner_user_id])
     ELSE
       Goto(c, k)
  /\ UNCHANGED <<users, tracks, lessons, attempts, user_track_state, clock, req, resp>>

\* const existing = await db.query(`SELECT id FROM tracks WHERE slug = $1`)
EnsureTrackExisting(c) ==
  LET k == calls[c] IN
  /\ k.pc = "existing"
  /\ Goto(c, [With(k, "existing", getTrackBySlug(ToLower(k.body.slug)))
               EXCEPT !.pc = "saved"])
  /\ UNCHANGED <<users, tracks, lessons, attempts, user_track_state, clock, req, resp>>

\* const saved = await db.query(`INSERT ... ON CONFLICT (slug) DO UPDATE ...`)
\* and the response, built from it and from existing.rowCount
EnsureTrackSaved(c) ==
  LET k     == calls[c]
      slug  == ToLower(k.body.slug)
      saved == SavedTrack(slug, k.body)
  IN
  /\ k.pc = "saved"
  /\ tracks' = (tracks \ getTrackBySlug(slug)) \cup {saved}
  /\ Goto(c, Done(k, [op      |-> "ensure-track",
                      status  |-> IF k.existing = {} THEN "201" ELSE "200",
                      created |-> k.existing = {},
                      track   |-> saved]))
  /\ UNCHANGED <<users, lessons, attempts, user_track_state, clock, req, resp>>

\* attempts: the zod parse and the choice of the id handed to ensureUser
AttemptStart(c, body) ==
  LET k == [pc |-> "ensureUser", op |-> "attempt", body |-> body,
            userId |-> IF Has(body, "user_id") THEN body.user_id ELSE Missing] IN
  /\ calls[c] = Idle
  /\ IF ~AttemptValid(body)
       THEN Goto(c, Done(k, [op |-> "attempt", status |-> "400"]))
       ELSE Goto(c, k)
  /\ UNCHANGED <<users, tracks, lessons, attempts, user_track_state, clock, req, resp>>

\* const created = await db.query(`INSERT INTO attempts ... RETURNING id, created_at`)
AttemptInsert(c) ==
  LET k == calls[c] IN
  /\ k.pc = "insert"
  /\ IF \A l \in lessons : l.id # k.body.lesson_id THEN
       \* attempts.lesson_id REFERENCES lessons(id)
       /\ attempts' = attempts
       /\ Goto(c, Done(k, Thrown("attempt")))
     ELSE
       /\ Cardinality(attempts) < MaxAttempts
       /\ attempts' = InsertAttempt(k.userId, k.body)
       /\ Goto(c, [With(k, "created", AttemptRow(k.userId, k.body).id)
                    EXCEPT !.pc = "lesson"])
  /\ UNCHANGED <<users, tracks, lessons, user_track_state, clock, req, resp>>

\* const lesson = await db.query(`SELECT l.lesson_order, l.track_id ...`),
\* the pass rule, and the response of an attempt that does not pass
AttemptLesson(c) ==
  LET k      == calls[c]
      lesson == {l \in lessons : l.id = k.body.lesson_id}
  IN
  /\ k.pc = "lesson"
  /\ IF lesson = {} THEN
       Goto(c, Done(k, [op |-> "attempt", status |-> "404"]))
     ELSE IF Passed(k.body) THEN
       Goto(c, [With(k, "lesson", Pick(lesson)) EXCEPT !.pc = "advance"])
     ELSE
       Goto(c, Done(k, [op         |-> "attempt",
                        status     |-> "200",
                        user_id    |-> k.userId,
                        attempt_id |-> k.created,
                        advanced   |-> FALSE]))
  /\ UNCHANGED <<users, tracks, lessons, attempts, user_track_state, clock, req, resp>>

\* await db.query(`UPDATE user_track_state SET current_lesson_order =
\* GREATEST(...)`), advanced = true, and the response
AttemptAdvance(c) ==
  LET k == calls[c] IN
  /\ k.pc = "advance"
  /\ IF StateRows(k.userId, k.lesson.track_id) # {}
       THEN /\ clock < MaxClock
            /\ clock' = clock + 1
            /\ user_track_state' =
                 Advance(k.userId, k.lesson.track_id, k.lesson.lesson_order + 1, clock + 1)
       ELSE UNCHANGED <<user_track_state, clock>>
  /\ Goto(c, Done(k, [op         |-> "attempt",
                      status     |-> "200",
                      user_id    |-> k.userId,
                      attempt_id |-> k.created,
                      advanced   |-> TRUE]))
  /\ UNCHANGED <<users, tracks, lessons, attempts, req, resp>>

\* the rows call c has written since BEGIN and not yet committed or rolled
\* back; c holds the lock of each until then
Pending(c) ==
  IF calls[c].pc \in {"upsert", "commit", "rollback"} THEN calls[c].pending ELSE {}

\* the table ls with the rows written over it, by (track_id, lesson_order)
Overlay(ls, rows) ==
  {l \in ls : \A r \in rows :
              ~(r.track_id = l.track_id /\ r.lesson_order = l.lesson_order)}
    \cup rows

\* every row version there is, committed or not
AllRows == Overlay(lessons, UNION {Pending(d) : d \in CallIds})

\* the calls whose uncommitted row stands in the way of c's next upsert
WaitsFor(c) ==
  IF calls[c].pc # "upsert" THEN {}
  ELSE {d \in CallIds \ {c} :
          \E r \in Pending(d) :
            /\ r.track_id = calls[c].track.id
            /\ r.lesson_order = calls[c].body.lessons[calls[c].i].lesson_order}

RECURSIVE WaitChain(_, _)
WaitChain(S, n) ==
  IF n = 0 THEN S ELSE WaitChain(S \cup UNION {WaitsFor(d) : d \in S}, n - 1)

\* a row written with autocommit, as scripts/seed-demo.js writes it
Autocommitted(ls, row) == Overlay(ls, {row})

\* the table other connections read after a row is written between BEGIN and
\* COMMIT
Uncommitted(ls, row) == ls

\* seed-lessons, behind requireAdminKey: the zod parse
SeedStart(c, p) ==
  LET k == [pc |-> "getTrackBySlug", op |-> "seed-lessons", body |-> p] IN
  /\ calls[c] = Idle
  /\ IF ~SeedLessonsValid(p)
       THEN Goto(c, Done(k, [op |-> "seed-lessons", status |-> "400"]))
       ELSE Goto(c, k)
  /\ UNCHANGED <<users, tracks, lessons, attempts, user_track_state, clock, req, resp>>

\* const track = await getTrackBySlug(...), db.getClient() and BEGIN
SeedGetTrack(c) ==
  LET k     == calls[c]
      track == getTrackBySlug(ToLower(k.body.track_slug))
  IN
  /\ k.pc = "getTrackBySlug"
  /\ IF track = {}
       THEN Goto(c, Done(k, [op |-> "seed-lessons", status |-> "404"]))
       ELSE Goto(c, [pc |-> "upsert", op |-> k.op, body |-> k.body,
                     track |-> Pick(track), i |-> 1, seeded |-> <<>>, pending |-> {}])
  /\ UNCHANGED <<users, tracks, lessons, attempts, user_track_state, clock, req, resp>>

\* one turn of the for loop: the upsert of lesson i, which waits while another
\* transaction holds the row, and seeded.push
SeedUpsert(c) ==
  LET k      == calls[c]
      lesson == k.body.lessons[k.i]
      row    == UpsertedLesson(AllRows, k.track.id, lesson)
  IN
  /\ k.pc = "upsert"
  /\ WaitsFor(c) = {}
  /\ IF ~Storable(lesson) THEN
       /\ lessons' = lessons
       /\ Goto(c, [k EXCEPT !.pc = "rollback"])
     ELSE
       /\ lessons' = Uncommitted(lessons, row)
       /\ Goto(c, [k EXCEPT !.pc = IF k.i = Len(k.body.lessons) THEN "commit" ELSE "upsert",
                            !.i = k.i + 1,
                            !.seeded = Append(k.seeded,
                                              [id |-> row.id,
                                               lesson_order |-> row.lesson_order,
                                               title |-> row.title]),
                            !.pending = Overlay(k.pending, {row})])
  /\ UNCHANGED <<users, tracks, attempts, user_track_state, clock, req, resp>>

\* two transactions wait for each other's rows: the database ends the wait of
\* one of them with an error, which the handler catches
SeedDeadlock(c) ==
  /\ calls[c].pc = "upsert"
  /\ c \in WaitChain(WaitsFor(c), MaxCalls)
  /\ Goto(c, [calls[c] EXCEPT !.pc = "rollback"])
  /\ UNCHANGED <<users, tracks, lessons, attempts, user_track_state, clock, req, resp>>

\* await client.query("COMMIT") and the 200 response
SeedCommit(c) ==
  LET k == calls[c] IN
  /\ k.pc = "commit"
  /\ lessons' = Overlay(lessons, k.pending)
  /\ Goto(c, Done(k, [op                  |-> "seed-lessons",
                      status              |-> "200",
                      track               |-> [id |-> k.track.id, slug |-> k.track.slug,
                                               title |-> k.track.title],
                      inserted_or_updated |-> Len(k.seeded),
                      lessons             |-> k.seeded]))
  /\ UNCHANGED <<users, tracks, attempts, user_track_state, clock, req, resp>>

\* catch: await client.query("ROLLBACK") and the 400 response
SeedRollback(c) ==
  LET k == calls[c] IN
  /\ k.pc = "rollback"
  /\ lessons' = RolledBack(lessons, Overlay(lessons, k.pending))
  /\ Goto(c, Done(k, [op |-> "seed-lessons", status |-> "400"]))
  /\ UNCHANGED <<users, tracks, attempts, user_track_state, clock, req, resp>>

\* GET /v1/me up to its first await: req.query.user_id goes to ensureUser
MeStart(c, user_id) ==
  /\ calls[c] = Idle
  /\ Goto(c, [pc |-> "ensureUser", op |-> "me", userId |-> user_id])
  /\ UNCHANGED <<users, tracks, lessons, attempts, user_track_state, clock, req, resp>>

\* the SELECT COUNT(*) of the attempts of the last 7 days, and the response
MeCount(c) ==
  LET k == calls[c] IN
  /\ k.pc = "count"
  /\ Goto(c, Done(k, [op |-> "me", status |-> "200", user_id |-> k.userId]))
  /\ UNCHANGED <<users, tracks, lessons, attempts, user_track_state, clock, req, resp>>

-----------------------------------------------------------------------------

Init ==
  /\ users = {}
  /\ tracks = {}
  /\ lessons = {}
  /\ attempts = {}
  /\ user_track_state = {}
  /\ clock = 0
  /\ req = [op |-> "none"]
  /\ resp = [op |-> "none", status |-> "none"]
  /\ calls = [c \in CallIds |-> Idle]

-----------------------------------------------------------------------------
(* Requests *)

UserIdInputs == UserIds \cup {Missing, BadUuid}

\* ensure-track payloads: slug and title, each optional key absent or present
TrackPayloads(slugs, titles, sources, types, owners, statuses) ==
  Opt(Opt(Opt(Opt({[slug |-> s, title |-> t] : s \in slugs, t \in titles},
                  "official_sources", sources),
              "track_type", types),
          "owner_user_id", owners),
      "status", statuses)

\* the learner-side specification declares tracks by slug and title alone
PlainTrackPayloads ==
  TrackPayloads(RawSlugs \cup {ShortSlug}, {"Python"}, {}, {}, {}, {})

Lesson(n, title) ==
  [lesson_order |-> n, title |-> title,
   objectives |-> <<>>, tags |-> <<>>, source_urls |-> <<>>]

\* a whole curriculum 1..MaxOrder, and one with gaps (the odd positions)
Gapless == [n \in 1..MaxOrder |-> Lesson(n, "Lesson")]
Gappy == [i \in 1..((MaxOrder + 1) \div 2) |-> Lesson(2 * i - 1, "Lesson")]

\* seeds of the declared track, of an unknown slug, and one zod rejects
PlainSeeds ==
  {[track_slug |-> s, lessons |-> list] : s \in RawSlugs, list \in {Gapless, Gappy}}
    \cup {[track_slug |-> UnknownSlug, lessons |-> Gapless],
          [track_slug |-> "py", lessons |-> <<Lesson(1, ShortTitle)>>]}

\* attempt bodies: lesson_id and attempt_type, each optional key absent or
\* present
AttemptBodies(lessonIds, types, userIds, scores, maxScores) ==
  Opt(Opt(Opt({[lesson_id |-> l, attempt_type |-> t] : l \in lessonIds, t \in types},
              "user_id", userIds),
          "score", scores),
      "max_score", maxScores)

\* 7/10 passes and 5/10 fails, on every stored lesson.  Two more bodies name
\* the next, unused lesson id, and three are the ones zod rejects.
PlainAttemptBodies ==
  {b \in AttemptBodies(1..Cardinality(lessons), {"quiz"}, UserIds, {5, 7}, {10}) :
     Has(b, "score") /\ Has(b, "max_score")}
    \cup {[lesson_id |-> Cardinality(lessons) + 1, attempt_type |-> "quiz",
           score |-> 7, max_score |-> 10],
          [lesson_id |-> Cardinality(lessons) + 1, attempt_type |-> "quiz",
           user_id |-> "u1", score |-> 5, max_score |-> 10],
          [lesson_id |-> 0, attempt_type |-> "quiz"],
          [lesson_id |-> 1, attempt_type |-> "essay"],
          [lesson_id |-> 1, attempt_type |-> "quiz", user_id |-> BadUuid]}

\* every request with the admin key, one without it
Keyed(payloads) ==
  {<<ADMIN_KEY, p>> : p \in payloads} \cup {<<WrongKey, Pick(payloads)>>}

\* create-track requests: every payload with the admin key, a well-formed
\* one without it
KeyedCreate(payloads) ==
  {<<ADMIN_KEY, p>> : p \in payloads}
    \cup {<<WrongKey, [slug |-> "py", title |-> "Python"]>>}

EnsureTrackReq == \E kp \in Keyed(PlainTrackPayloads) : EnsureTrack(kp[1], kp[2])
CreateTrackReq == \E kp \in KeyedCreate(PlainTrackPayloads) : CreateTrack(kp[1], kp[2])
SeedLessonsReq == \E kp \in Keyed(PlainSeeds) : SeedLessons(kp[1], kp[2])
MeReq == \E u \in UserIdInputs : Me(u)
NextLessonReq ==
  \/ \E t \in RawSlugs \cup {UnknownSlug}, u \in UserIds \cup {Missing} : NextLesson(t, u)
  \/ NextLesson(Missing, Missing)
  \/ NextLesson("py", BadUuid)
RecordAttemptReq == \E body \in PlainAttemptBodies : RecordAttempt(body)

Next ==
  \/ EnsureTrackReq
  \/ CreateTrackReq
  \/ SeedLessonsReq
  \/ MeReq
  \/ NextLessonReq
  \/ RecordAttemptReq

Spec == Init /\ [][Next]_vars

-----------------------------------------------------------------------------
(* The catalog alone, declared with every combination of optional fields *)

CatalogTrackPayloads ==
  TrackPayloads({"py"}, {"Python", "Python 3"}, {<<>>, <<GoodUrl>>},
                TrackTypes, {NULL, "u1"}, {"draft", "active"})
    \cup {[slug |-> "PY", title |-> "Python"],
          [slug |-> "PY", title |-> "Python", status |-> "archived"],
          [slug |-> ShortSlug, title |-> "Python"],
          [slug |-> "py", title |-> "Python", official_sources |-> <<BadUrl>>],
          [slug |-> "py", title |-> "Python", track_type |-> "bogus"],
          [slug |-> "py", title |-> "Python", owner_user_id |-> BadUuid],
          [slug |-> "py", title |-> "Python", status |-> "bogus"]}

CatalogCreatePayloads ==
  TrackPayloads({"py", "PY", ShortSlug}, {"Python", "Python 3"},
                {<<>>, <<GoodUrl>>, <<BadUrl>>}, {}, {}, {})

EnsureTrackCatalogReq ==
  \E kp \in Keyed(CatalogTrackPayloads) : EnsureTrack(kp[1], kp[2])
CreateTrackCatalogReq ==
  \E kp \in KeyedCreate(CatalogCreatePayloads) : CreateTrack(kp[1], kp[2])

NextCatalog ==
  \/ EnsureTrackCatalogReq
  \/ CreateTrackCatalogReq

SpecCatalog == Init /\ [][NextCatalog]_vars

-----------------------------------------------------------------------------
(* The catalog declared under slugs in every spelling, and the seed script *)

SlugTrackPayloads ==
  TrackPayloads(RawSlugs \cup {PaddedSlug, ShortSlug}, {"Python", "Python 3"},
                {}, {}, {}, {"active"})

EnsureTrackSlugsReq == \E kp \in Keyed(SlugTrackPayloads) : EnsureTrack(kp[1], kp[2])
CreateTrackSlugsReq ==
  \E kp \in KeyedCreate(TrackPayloads(RawSlugs \cup {PaddedSlug, ShortSlug}, {"Python"},
                                      {}, {}, {}, {})) :
    CreateTrack(kp[1], kp[2])

NextSlugs ==
  \/ EnsureTrackSlugsReq
  \/ CreateTrackSlugsReq
  \/ SeedDemo

SpecSlugs == Init /\ [][NextSlugs]_vars

-----------------------------------------------------------------------------
(* One learner on one seeded track, attempts with every kind of score *)

ScoredAttemptBodies ==
  AttemptBodies({1, 2}, {"quiz"}, {"u1"}, {-7, 5, 7}, {-10, 0, 10})

EnsureTrackScoresReq == EnsureTrack(ADMIN_KEY, [slug |-> "py", title |-> "Python"])
SeedLessonsScoresReq ==
  SeedLessons(ADMIN_KEY, [track_slug |-> "py", lessons |-> Gapless])
NextLessonScoresReq == NextLesson("py", "u1")
RecordAttemptScoresReq == \E body \in ScoredAttemptBodies : RecordAttempt(body)

NextScores ==
  \/ EnsureTrackScoresReq
  \/ SeedLessonsScoresReq
  \/ NextLessonScoresReq
  \/ RecordAttemptScoresReq

SpecScores == Init /\ [][NextScores]_vars

-----------------------------------------------------------------------------
(* Curricula seeded into one declared track, next to the demo track *)

\* lessons at positions 1 and 2, under either title, with or without an
\* objective
SeedEntries ==
  {[lesson_order |-> n, title |-> t, objectives |-> o,
    tags |-> <<>>, source_urls |-> <<>>] :
     n \in 1..2, t \in {"Intro", "Basics"}, o \in {<<>>, <<"read">>}}

\* every list of one or two such lessons (a position may come twice), a list
\* with a lesson the table rejects, and lists zod rejects
SeedLists ==
  {<<a>> : a \in SeedEntries} \cup {<<a, b>> : a, b \in SeedEntries}

RejectedSeedLists ==
  {<<Lesson(1, "Intro"), Lesson(3, "Intro"), Lesson(2, NulTitle)>>,
   <<Lesson(1, NulTitle), Lesson(3, "Intro")>>}

InvalidSeedLists ==
  {<<Lesson(1, "Basics"), Lesson(2, ShortTitle)>>,
   <<Lesson(0, "Basics")>>,
   <<>>,
   <<[lesson_order |-> 1, title |-> "Basics", objectives |-> <<>>, tags |-> <<>>,
      source_urls |-> <<BadUrl>>]>>}

SeedPayloads ==
  {[track_slug |-> "py", lessons |-> list] :
     list \in SeedLists \cup RejectedSeedLists \cup InvalidSeedLists}
    \cup {[track_slug |-> UnknownSlug, lessons |-> <<Lesson(1, "Intro")>>],
          [track_slug |-> "PY", lessons |-> <<Lesson(1, "Intro")>>],
          [track_slug |-> ShortSlug, lessons |-> <<Lesson(1, "Intro")>>]}

EnsureTrackSeedsReq == EnsureTrack(ADMIN_KEY, [slug |-> "py", title |-> "Python"])
SeedLessonsSeedsReq == \E kp \in Keyed(SeedPayloads) : SeedLessons(kp[1], kp[2])

NextSeeds ==
  \/ EnsureTrackSeedsReq
  \/ SeedLessonsSeedsReq
  \/ SeedDemo

SpecSeeds == Init /\ [][NextSeeds]_vars

-----------------------------------------------------------------------------
(* Learners resolved by every route that takes a learner id *)

\* the track declared without an owner, with a null one, with a learner's id
\* and with a string that is no uuid
OwnedTrackPayloads ==
  TrackPayloads({"py"}, {"Python"}, {}, {}, UserIds \cup {NULL, BadUuid}, {})

LearnerAttemptBodies ==
  AttemptBodies({1, 2}, {"quiz"}, UserIds \cup {BadUuid}, {}, {})
    \cup {[lesson_id |-> 1, attempt_type |-> "quiz", user_id |-> u,
           score |-> 7, max_score |-> 10] : u \in UserIds}

EnsureTrackLearnersReq == \E kp \in Keyed(OwnedTrackPayloads) : EnsureTrack(kp[1], kp[2])
SeedLessonsLearnersReq ==
  SeedLessons(ADMIN_KEY, [track_slug |-> "py", lessons |-> <<Lesson(1, "Lesson")>>])
MeLearnersReq == \E u \in UserIdInputs : Me(u)
NextLessonLearnersReq ==
  \E t \in {"py", UnknownSlug, Missing}, u \in UserIdInputs : NextLesson(t, u)
RecordAttemptLearnersReq == \E body \in LearnerAttemptBodies : RecordAttempt(body)

NextLearners ==
  \/ EnsureTrackLearnersReq
  \/ SeedLessonsLearnersReq
  \/ MeLearnersReq
  \/ NextLessonLearnersReq
  \/ RecordAttemptLearnersReq

SpecLearners == Init /\ [][NextLearners]_vars

-----------------------------------------------------------------------------
(* Two ensure-track calls at a time *)

RaceTrackPayloads ==
  TrackPayloads(RawSlugs \cup {ShortSlug}, {"Python", "Python 3"}, {}, {},
                {"u1"}, {"active"})

EnsureTrackStartReq ==
  \E c \in CallIds, p \in RaceTrackPayloads : EnsureTrackStart(c, p)

NextEnsureRace ==
  \/ EnsureTrackStartReq
  \/ \E c \in CallIds : EnsureUserSelect(c)
  \/ \E c \in CallIds : EnsureUserInsert(c)
  \/ \E c \in CallIds : EnsureTrackExisting(c)
  \/ \E c \in CallIds : EnsureTrackSaved(c)

SpecEnsureRace == Init /\ [][NextEnsureRace]_vars

-----------------------------------------------------------------------------
(* Two attempts at a time, by a learner who has started the seeded track *)

EnrolledTrack == [slug |-> "py", title |-> "Python"]

\* the state after ensure-track of EnrolledTrack, seed-lessons of Gapless and
\* GET /v1/lessons/next?track=py&user_id=u1, in that order
InitEnrolled ==
  /\ users = {"u1"}
  /\ tracks = {[id |-> 1, slug |-> "py", title |-> "Python",
                official_sources |-> <<>>, track_type |-> "custom",
                owner_user_id |-> NULL, status |-> "draft"]}
  /\ lessons = {[id |-> n, track_id |-> 1, lesson_order |-> n, title |-> "Lesson",
                 objectives |-> <<>>, tags |-> <<>>, source_urls |-> <<>>] :
                   n \in 1..MaxOrder}
  /\ attempts = {}
  /\ user_track_state = {[user_id |-> "u1", track_id |-> 1,
                          current_lesson_order |-> 1, last_seen |-> 1]}
  /\ clock = 1
  /\ req = [op |-> "none"]
  /\ resp = [op |-> "none", status |-> "none"]
  /\ calls = [c \in CallIds |-> Idle]

\* 7/10 and 9/10 pass, 5/10 fails; lesson MaxOrder + 1 is not stored
RaceAttemptBodies ==
  {b \in AttemptBodies(1..(MaxOrder + 1), {"quiz"}, UserIds, {5, 7, 9}, {10}) :
     Has(b, "score") /\ Has(b, "max_score")}
    \cup {[lesson_id |-> 0, attempt_type |-> "quiz"]}

AttemptStartReq ==
  \E c \in CallIds, body \in RaceAttemptBodies : AttemptStart(c, body)

NextAttemptRace ==
  \/ AttemptStartReq
  \/ \E c \in CallIds : EnsureUserSelect(c)
  \/ \E c \in CallIds : EnsureUserInsert(c)
  \/ \E c \in CallIds : AttemptInsert(c)
  \/ \E c \in CallIds : AttemptLesson(c)
  \/ \E c \in CallIds : AttemptAdvance(c)

SpecAttemptRace == InitEnrolled /\ [][NextAttemptRace]_vars

-----------------------------------------------------------------------------
(* Two seed-lessons calls at a time, on a declared track *)

\* the state after ensure-track of EnrolledTrack
InitDeclared ==
  /\ users = {}
  /\ tracks = {[id |-> 1, slug |-> "py", title |-> "Python",
                official_sources |-> <<>>, track_type |-> "custom",
                owner_user_id |-> NULL, status |-> "draft"]}
  /\ lessons = {}
  /\ attempts = {}
  /\ user_track_state = {}
  /\ clock = 0
  /\ req = [op |-> "none"]
  /\ resp = [op |-> "none", status |-> "none"]
  /\ calls = [c \in CallIds |-> Idle]

\* two editions of every pair of positions from 1..2 and 1..3, a list whose second upsert
\* the table rejects, an unknown track and a list zod rejects
RaceSeedPayloads ==
  {[track_slug |-> "py", lessons |-> <<Lesson(a, t), Lesson(b, t)>>] :
     a \in 1..2, b \in 1..3, t \in {"Intro", "Basics"}}
    \cup {[track_slug |-> "py", lessons |-> <<Lesson(1, "Intro"), Lesson(2, NulTitle)>>],
          [track_slug |-> UnknownSlug, lessons |-> <<Lesson(1, "Intro")>>],
          [track_slug |-> "py", lessons |-> <<>>]}

SeedStartReq == \E c \in CallIds, p \in RaceSeedPayloads : SeedStart(c, p)

NextSeedRace ==
  \/ SeedStartReq
  \/ \E c \in CallIds : SeedGetTrack(c)
  \/ \E c \in CallIds : SeedUpsert(c)
  \/ \E c \in CallIds : SeedDeadlock(c)
  \/ \E c \in CallIds : SeedCommit(c)
  \/ \E c \in CallIds : SeedRollback(c)

SpecSeedRace == InitDeclared /\ [][NextSeedRace]_vars

-----------------------------------------------------------------------------
(* Two requests at a time that resolve a learner: /v1/me, and ensure-track
   for its owner *)

OwnedRaceTrackPayloads ==
  {[slug |-> "py", title |-> "Python", owner_user_id |-> u] : u \in UserIds}

MeStartReq == \E c \in CallIds, u \in UserIdInputs : MeStart(c, u)
EnsureTrackStartOwnedReq ==
  \E c \in CallIds, p \in OwnedRaceTrackPayloads : EnsureTrackStart(c, p)

NextResolveRace ==
  \/ MeStartReq
  \/ EnsureTrackStartOwnedReq
  \/ \E c \in CallIds : EnsureUserSelect(c)
  \/ \E c \in CallIds : EnsureUserInsert(c)
  \/ \E c \in CallIds : MeCount(c)
  \/ \E c \in CallIds : EnsureTrackExisting(c)
  \/ \E c \in CallIds : EnsureTrackSaved(c)

SpecResolveRace == Init /\ [][NextResolveRace]_vars

-----------------------------------------------------------------------------
(* Properties *)

LessonById(id) == Pick({l \in lessons : l.id = id})

\* the pass rule as specified: both numbers supplied, max-score > 0 and
\* score / maxScore * 100 >= 70
BodyPasses(b) ==
  /\ Has(b, "score")
  /\ Has(b, "max_score")
  /\ b.max_score > 0
  /\ b.score * 100 >= 70 * b.max_score

\* the same rule on a stored attempt
RowPasses(a) ==
  \E sc \in a.score, m \in a.max_score : m > 0 /\ sc * 100 >= 70 * m

\* the lesson positions the learner has passed in the track
PassedOrders(user_id, track_id) ==
  {l.lesson_order :
     l \in {x \in lessons :
              /\ x.track_id = track_id
              /\ \E a \in attempts :
                   a.user_id = user_id /\ a.lesson_id = x.id /\ RowPasses(a)}}

\* the cursor positions, without last_seen
Cursors ==
  {<<s.user_id, s.track_id, s.current_lesson_order>> : s \in user_track_state}

\* the last request was a recordAttempt call that was answered
AttemptAnswered == resp.op = "attempt" /\ resp.status = "200"

\* C1: after any sequence of recordAttempt calls by a learner on a track, the
\* learner's cursor for the track is 1 + the largest position among the
\* learner's passing attempts.
C1_CursorIsOnePlusMaxPassed ==
  AttemptAnswered =>
    \A t \in tracks :
      PassedOrders(resp.user_id, t.id) # {} =>
        \E s \in StateRows(resp.user_id, t.id) :
          s.current_lesson_order = 1 + SetMax(PassedOrders(resp.user_id, t.id))

\* C2: recordAttempt with a well-formed lesson id that matches no stored
\* lesson returns NotFound (404) and leaves the attempts table as it was.
C2_UnknownLessonIsNotFound ==
  [][(/\ req'.op = "attempt"
      /\ AttemptValid(req'.body)
      /\ \A l \in lessons : l.id # req'.body.lesson_id)
       => (resp'.status = "404" /\ attempts' = attempts)]_vars

\* C3: recordAttempt on an existing lesson returns advanced=true exactly when
\* score and maxScore are both supplied, maxScore > 0 and
\* score * 100 >= 70 * maxScore, and then the learner's existing cursor has
\* been advanced past the lesson; in every other case it returns
\* advanced=false.
C3_AdvancedIffPassRule ==
  AttemptAnswered =>
    /\ resp.advanced <=> BodyPasses(req.body)
    /\ resp.advanced =>
         \A s \in StateRows(resp.user_id, LessonById(req.body.lesson_id).track_id) :
           s.current_lesson_order >= LessonById(req.body.lesson_id).lesson_order + 1

\* an attempt at exactly 70 percent was answered advanced=true and moved the
\* learner's cursor
C3_Witness ==
  /\ AttemptAnswered
  /\ resp.advanced
  /\ Has(req.body, "score") /\ Has(req.body, "max_score")
  /\ req.body.score * 100 = 70 * req.body.max_score
  /\ StateRows(resp.user_id, LessonById(req.body.lesson_id).track_id) # {}

\* C4: whenever recordAttempt on the lesson at position p of track t answers
\* advanced=true to learner u, the cursor of (u, t) exists and is >= p + 1.
C4_AdvancedMeansCursorMoved ==
  (AttemptAnswered /\ resp.advanced) =>
    \E s \in StateRows(resp.user_id, LessonById(req.body.lesson_id).track_id) :
      s.current_lesson_order >= LessonById(req.body.lesson_id).lesson_order + 1

\* C5: no step of any operation decreases (or removes) the cursor of a
\* (learner, track) pair, and an advance from position p leaves the stored
\* cursor at max(stored, p + 1).
C5_CursorNeverDecreases ==
  [][/\ \A s \in user_track_state :
          \E n \in user_track_state' :
            /\ n.user_id = s.user_id
            /\ n.track_id = s.track_id
            /\ n.current_lesson_order >= s.current_lesson_order
     /\ (resp'.op = "attempt" /\ resp'.status = "200" /\ resp'.advanced) =>
          LET l == LessonById(req'.body.lesson_id) IN
          \A s \in StateRows(resp'.user_id, l.track_id) :
            \E n \in user_track_state' :
              /\ n.user_id = s.user_id
              /\ n.track_id = s.track_id
              /\ n.current_lesson_order =
                   IF s.current_lesson_order >= l.lesson_order + 1
                     THEN s.current_lesson_order ELSE l.lesson_order + 1]_vars

\* a passing attempt on a lesson the learner is already past was answered,
\* and the cursor is still beyond that lesson's successor
C5_Witness ==
  /\ AttemptAnswered
  /\ resp.advanced
  /\ \E s \in StateRows(resp.user_id, LessonById(req.body.lesson_id).track_id) :
       s.current_lesson_order > LessonById(req.body.lesson_id).lesson_order + 1

C7_AttemptsAppendOnly ==
  [][/\ attempts \subseteq attempts'
     /\ (/\ req'.op = "attempt"
         /\ AttemptValid(req'.body)
         /\ \E l \in lessons : l.id = req'.body.lesson_id)
          => Cardinality(attempts') = Cardinality(attempts) + 1]_vars

\* a failed attempt was recorded on top of a passed one
C7_Witness ==
  /\ AttemptAnswered
  /\ ~resp.advanced
  /\ \E a \in attempts : RowPasses(a)
  /\ \E a \in attempts : a.id = resp.attempt_id /\ ~RowPasses(a)

\* the request was an ensure-track call that the handler carried out
EnsureAnswered(rq, rs) == rq.op = "ensure-track" /\ rs.status \in {"200", "201"}

\* C8: EnsureTrack on a slug that does not exist answers created=true, and
\* the same call repeated right after it answers created=false and leaves the
\* stored track, id included, as the first call left it.
C8_EnsureTrackTwiceIsIdempotent ==
  [][/\ (EnsureAnswered(req', resp') /\ getTrackBySlug(ToLower(req'.body.slug)) = {})
          => resp'.created
     /\ (EnsureAnswered(req, resp) /\ resp.created /\ req' = req)
          => /\ resp'.status = "200"
             /\ ~resp'.created
             /\ resp'.track = resp.track
             /\ tracks' = tracks]_vars

\* the only track was declared with every optional field, and the last call,
\* carrying the very fields the row holds, found it in place
C8_Witness ==
  /\ EnsureAnswered(req, resp)
  /\ ~resp.created
  /\ tracks = {resp.track}
  /\ DOMAIN req.body = {"slug", "title", "official_sources", "track_type",
                        "owner_user_id", "status"}
  /\ \A f \in DOMAIN req.body \ {"slug"} : resp.track[f] = req.body[f]
  /\ resp.track.status = "active"
  /\ resp.track.owner_user_id = "u1"

OptionalTrackFields == {"official_sources", "track_type", "owner_user_id", "status"}

\* C9: EnsureTrack on an existing slug leaves each optional field (sources,
\* category, owner, status) holding the supplied value when the request has
\* the field (a null owner and an empty sources list included) and the value
\* stored before when it has not.
C9_EnsureTrackPartialMerge ==
  [][(EnsureAnswered(req', resp') /\ getTrackBySlug(ToLower(req'.body.slug)) # {})
       => LET old == Pick(getTrackBySlug(ToLower(req'.body.slug)))
              new == {t \in tracks' : t.slug = old.slug}
          IN /\ Cardinality(new) = 1
             /\ \A t \in new, f \in OptionalTrackFields :
                  t[f] = IF Has(req'.body, f) THEN req'.body[f] ELSE old[f]]_vars

\* a call without status and category found them set to other values than the
\* defaults and left them so, while its null owner and empty sources list
\* were stored
C9_Witness ==
  /\ EnsureAnswered(req, resp)
  /\ ~resp.created
  /\ DOMAIN req.body = {"slug", "title", "official_sources", "owner_user_id"}
  /\ req.body.owner_user_id = NULL
  /\ req.body.official_sources = <<>>
  /\ \E t \in tracks :
       /\ t.status = "active"
       /\ t.track_type = "official"
       /\ t.owner_user_id = NULL
       /\ t.official_sources = <<>>
  /\ "u1" \in users

\* C10: EnsureTrack on a slug that does not exist inserts one track whose
\* supplied fields hold the supplied values and whose omitted fields hold
\* category=custom, status=draft, sources=empty list, owner=none, and answers
\* created=true.
C10_EnsureTrackInsertsWithDefaults ==
  [][(EnsureAnswered(req', resp') /\ getTrackBySlug(ToLower(req'.body.slug)) = {})
       => LET p == req'.body
              new == tracks' \ tracks
          IN /\ resp'.created
             /\ tracks \subseteq tracks'
             /\ Cardinality(new) = 1
             /\ \A t \in new :
                  /\ t = resp'.track
                  /\ t.slug = ToLower(p.slug)
                  /\ t.title = p.title
                  /\ \A o \in tracks : o.id # t.id
                  /\ t.official_sources =
                       IF Has(p, "official_sources") THEN p.official_sources ELSE <<>>
                  /\ t.track_type = IF Has(p, "track_type") THEN p.track_type ELSE "custom"
                  /\ t.owner_user_id =
                       IF Has(p, "owner_user_id") THEN p.owner_user_id ELSE NULL
                  /\ t.status = IF Has(p, "status") THEN p.status ELSE "draft"]_vars

\* a call with slug and title alone created a track that holds the defaults
C10_Witness ==
  /\ EnsureAnswered(req, resp)
  /\ resp.created
  /\ DOMAIN req.body = {"slug", "title"}
  /\ resp.track \in tracks
  /\ resp.track.track_type = "custom"
  /\ resp.track.status = "draft"
  /\ resp.track.official_sources = <<>>
  /\ resp.track.owner_user_id = NULL


\* the slug normalisation of the catalog contract: surrounding blanks trimmed,
\* then lower case
Trim(s) == IF s = " PY" THEN "PY" ELSE IF s = " py" THEN "py" ELSE s
Normalized(s) == ToLower(Trim(s))

\* C11: in every reachable state no two tracks have the same slug and every
\* stored slug is in normalized form (trimmed and lower case), whatever slugs
\* ensure-track, create-track and the seed script were given.
C11_SlugsUniqueAndNormalized ==
  /\ \A t1, t2 \in tracks : t1.slug = t2.slug => t1 = t2
  /\ \A t \in tracks : t.slug = Normalized(t.slug)


\* the last request was a seed-lessons call, answered with status st
SeedAnswered(rq, rs, st) == rq.op = "seed-lessons" /\ rs.status = st

\* the content of a stored lesson is that of the input entry
SameContent(l, entry) ==
  /\ l.lesson_order = entry.lesson_order
  /\ l.title = entry.title
  /\ l.objectives = entry.objectives
  /\ l.tags = entry.tags
  /\ l.source_urls = entry.source_urls

\* C12: a seed-lessons call with a lesson that fails validation or an upsert
\* that fails leaves the lessons table as it was before the call; a call that
\* succeeds leaves, for every lesson of the call, a row at its position in the
\* track that holds a lesson of the call.
C12_SeedLessonsAllOrNothing ==
  [][(req'.op = "seed-lessons") =>
       LET list == req'.body.lessons IN
       /\ (~SeedLessonsValid(req'.body) \/ \E i \in 1..Len(list) : ~Storable(list[i]))
            => (lessons' = lessons /\ resp'.status # "200")
       /\ resp'.status # "200" => lessons' = lessons
       /\ resp'.status = "200" =>
            \A i \in 1..Len(list) :
              \E l \in lessons' :
                /\ l.track_id = resp'.track.id
                /\ \E j \in 1..Len(list) : SameContent(l, list[j])
                /\ l.lesson_order = list[i].lesson_order]_vars

\* a call whose third upsert the table rejected was answered 400, after its
\* first two had run inside the transaction; none of its positions is stored
C12_Witness ==
  /\ SeedAnswered(req, resp, "400")
  /\ req.key = ADMIN_KEY
  /\ getTrackBySlug(ToLower(req.body.track_slug)) # {}
  /\ Len(req.body.lessons) = 3
  /\ Storable(req.body.lessons[1]) /\ Storable(req.body.lessons[2])
  /\ ~Storable(req.body.lessons[3])
  /\ \A l \in lessons :
       l.track_id = Pick(getTrackBySlug(ToLower(req.body.track_slug))).id
         => l.lesson_order # 3
  /\ \E l \in lessons :
       l.track_id = Pick(getTrackBySlug(ToLower(req.body.track_slug))).id

\* C13: seed-lessons for a slug no stored track has answers NotFound (404),
\* creates no track and writes no lesson.
C13_SeedUnknownTrackIsNotFound ==
  [][(/\ req'.op = "seed-lessons"
      /\ req'.key = ADMIN_KEY
      /\ SeedLessonsValid(req'.body)
      /\ \A t \in tracks : t.slug # ToLower(req'.body.track_slug))
       => (resp'.status = "404" /\ tracks' = tracks /\ lessons' = lessons)]_vars

\* a seed for an unknown slug was answered 404 while another track and its
\* lessons are stored
C13_Witness ==
  /\ SeedAnswered(req, resp, "404")
  /\ req.body.track_slug = UnknownSlug
  /\ tracks # {}
  /\ lessons # {}

LessonPositionsUnique ==
  \A l1, l2 \in lessons :
    (l1.track_id = l2.track_id /\ l1.lesson_order = l2.lesson_order) => l1 = l2

\* C14: after a successful seed-lessons call the track has, for every position
\* of the input, exactly one lesson, whose title, objectives, tags and source
\* urls are those of the last input entry for the position; the lessons at
\* other positions (and of other tracks) are unchanged; and (track, position)
\* is unique in every reachable state.
C14_SeedLessonsFullReplace ==
  [][/\ LessonPositionsUnique'
     /\ SeedAnswered(req', resp', "200") =>
          LET list      == req'.body.lessons
              tid       == resp'.track.id
              positions == {list[i].lesson_order : i \in 1..Len(list)}
              touched(l) == l.track_id = tid /\ l.lesson_order \in positions
          IN
          /\ \A n \in positions :
               LET last == SetMax({i \in 1..Len(list) : list[i].lesson_order = n})
                   rows == {l \in lessons' : l.track_id = tid /\ l.lesson_order = n}
               IN /\ Cardinality(rows) = 1
                  /\ \A l \in rows : SameContent(l, list[last])
          /\ {l \in lessons : ~touched(l)} = {l \in lessons' : ~touched(l)}]_vars

\* a call that names one position twice, with different content, succeeded
\* beside a lesson at another position and the lessons of another track
C14_Witness ==
  /\ SeedAnswered(req, resp, "200")
  /\ Len(req.body.lessons) = 2
  /\ req.body.lessons[1].lesson_order = req.body.lessons[2].lesson_order
  /\ req.body.lessons[1].title # req.body.lessons[2].title
  /\ req.body.lessons[1].objectives # <<>>
  /\ req.body.lessons[2].objectives = <<>>
  /\ \E l \in lessons :
       l.track_id = resp.track.id /\ l.lesson_order # req.body.lessons[1].lesson_order
  /\ \E l \in lessons : l.track_id # resp.track.id


\* C15: a next-lesson request for an existing track is answered, never with an
\* error, with the lesson whose position is exactly the learner's cursor, and
\* with "no lesson" (next_lesson: null) when the track has no lesson at that
\* position, also when it has lessons at larger positions.
C15_NextLessonIsTheOneAtTheCursor ==
  [][(/\ req'.op = "next-lesson"
      /\ req'.user_id # BadUuid
      /\ getTrackBySlug(ToLower(req'.track)) # {})
       => /\ resp'.status = "200"
          /\ resp'.track \in getTrackBySlug(ToLower(req'.track))
          /\ \E s \in user_track_state' :
               /\ s.user_id = resp'.user_id
               /\ s.track_id = resp'.track.id
               /\ resp'.next_lesson =
                    {l \in lessons' : /\ l.track_id = resp'.track.id
                                      /\ l.lesson_order = s.current_lesson_order}
          /\ Cardinality(resp'.next_lesson) <= 1]_vars

\* a learner at cursor 2 of a track seeded at positions 1 and 3 was answered
\* with no lesson
C15_Witness ==
  /\ resp.op = "next-lesson"
  /\ resp.status = "200"
  /\ resp.next_lesson = {}
  /\ \E s \in StateRows(resp.user_id, resp.track.id) : s.current_lesson_order = 2
  /\ \E l \in lessons : l.track_id = resp.track.id /\ l.lesson_order = 1
  /\ \E l \in lessons : l.track_id = resp.track.id /\ l.lesson_order = 3


\* the positions at which the track has a lesson
Positions(track_id) == {l.lesson_order : l \in {x \in lessons : x.track_id = track_id}}
\* the track is seeded with the positions 1..N, N >= 1
SeededGapless(track_id) ==
  /\ Positions(track_id) # {}
  /\ Positions(track_id) = 1..Cardinality(Positions(track_id))

\* C16: on a track seeded with positions 1..N, a next-lesson request by a
\* learner whose cursor is k <= N returns lesson k; when k < N, a passing
\* attempt on that lesson right after it returns advanced=true and sets the
\* cursor to k + 1 (so that the next next-lesson request returns lesson
\* k + 1).
C16_GaplessWalk ==
  [][/\ (/\ req'.op = "next-lesson"
          /\ req'.user_id \in UserIds
          /\ getTrackBySlug(ToLower(req'.track)) # {})
           => LET t == Pick(getTrackBySlug(ToLower(req'.track))) IN
              \A s \in StateRows(req'.user_id, t.id) :
                (SeededGapless(t.id)
                   /\ s.current_lesson_order <= Cardinality(Positions(t.id)))
                  => /\ resp'.status = "200"
                     /\ \E l \in resp'.next_lesson :
                          /\ l.track_id = t.id
                          /\ l.lesson_order = s.current_lesson_order
     /\ (/\ resp.op = "next-lesson"
          /\ resp.status = "200"
          /\ resp.next_lesson # {}
          /\ req'.op = "attempt"
          /\ AttemptValid(req'.body)
          /\ BodyPasses(req'.body)
          /\ Has(req'.body, "user_id"))
           => LET l == Pick(resp.next_lesson) IN
              (/\ req'.body.user_id = resp.user_id
               /\ req'.body.lesson_id = l.id
               /\ SeededGapless(l.track_id)
               /\ l.lesson_order < Cardinality(Positions(l.track_id)))
                => /\ resp'.status = "200"
                   /\ resp'.advanced
                   /\ \E n \in user_track_state' :
                        /\ n.user_id = resp.user_id
                        /\ n.track_id = l.track_id
                        /\ n.current_lesson_order = l.lesson_order + 1]_vars

\* the learner was given lesson 1 of a track seeded 1..3, passed it, and is
\* now given lesson 2
C16_Witness ==
  /\ resp.op = "next-lesson"
  /\ resp.status = "200"
  /\ SeededGapless(resp.track.id)
  /\ Cardinality(Positions(resp.track.id)) = 3
  /\ \E l \in resp.next_lesson : l.lesson_order = 2
  /\ \E s \in StateRows(resp.user_id, resp.track.id) :
       s.current_lesson_order = 2 /\ s.last_seen = 3
  /\ \E a \in attempts :
       /\ a.user_id = resp.user_id
       /\ RowPasses(a)
       /\ LessonById(a.lesson_id).track_id = resp.track.id
       /\ LessonById(a.lesson_id).lesson_order = 1


\* one cursor per (learner, track) pair, at position 1 or later
OneCursorPerPair ==
  /\ \A s1, s2 \in user_track_state :
       (s1.user_id = s2.user_id /\ s1.track_id = s2.track_id) => s1 = s2
  /\ \A s \in user_track_state : s.current_lesson_order >= 1

\* the first next-lesson request of a (learner, track) pair creates its cursor
\* at position 1
FirstNextLessonCreatesCursor ==
  (/\ req'.op = "next-lesson"
   /\ resp'.status = "200"
   /\ StateRows(resp'.user_id, resp'.track.id) = {})
    => \E n \in user_track_state' :
         /\ n.user_id = resp'.user_id
         /\ n.track_id = resp'.track.id
         /\ n.current_lesson_order = 1

\* a passing attempt, which has the progress tracker advance the pair, leaves
\* the pair with a cursor also when it had none
FirstAdvanceCreatesCursor ==
  (/\ req'.op = "attempt"
   /\ resp'.status = "200"
   /\ resp'.advanced)
    => \E n \in user_track_state' :
         /\ n.user_id = resp'.user_id
         /\ n.track_id = LessonById(req'.body.lesson_id).track_id

\* C17: the first reference by a learner to a track (a next-lesson request,
\* or the advance of a passing attempt) creates the cursor of the (learner,
\* track) pair, at position 1 when next-lesson creates it; in every reachable
\* state a pair has at most one cursor and its position is >= 1.
C17_FirstReferenceCreatesCursor ==
  [][/\ FirstNextLessonCreatesCursor
     /\ FirstAdvanceCreatesCursor
     /\ OneCursorPerPair']_vars


\* the well-formed learner id the request has the handler resolve, if any:
\* the id of me, next-lesson (with a track) and a valid attempt, the owner of
\* a valid ensure-track call that passed the admin key
ResolvedIds(rq) ==
  IF rq.op = "me" THEN {rq.user_id} \cap UserIds
  ELSE IF rq.op = "next-lesson" /\ rq.track # Missing THEN {rq.user_id} \cap UserIds
  ELSE IF rq.op = "attempt" /\ AttemptValid(rq.body) /\ Has(rq.body, "user_id")
    THEN {rq.body.user_id}
  ELSE IF /\ rq.op = "ensure-track"
          /\ rq.key = ADMIN_KEY
          /\ EnsureTrackValid(rq.body)
          /\ Has(rq.body, "owner_user_id")
    THEN {rq.body.owner_user_id} \cap UserIds
  ELSE {}

\* C18: resolving a well-formed id returns that id and leaves the learner
\* with that id stored: the users table after the call is the one before plus
\* that id (so a second call with the id changes nothing), and no step of any
\* operation removes a users row or adds more than one.
C18_ResolveIsIdempotent ==
  [][/\ users \subseteq users'
     /\ Cardinality(users') <= Cardinality(users) + 1
     /\ \A id \in ResolvedIds(req') :
          /\ users' = users \cup {id}
          /\ (resp'.status = "200" /\ req'.op # "ensure-track")
               => resp'.user_id = id]_vars

\* a learner who has a cursor, so was resolved before, was resolved again by
\* the learner summary and got the same id back
C18_Witness ==
  /\ req.op = "me"
  /\ req.user_id \in UserIds
  /\ resp.status = "200"
  /\ resp.user_id = req.user_id
  /\ \E s \in user_track_state : s.user_id = req.user_id
  /\ \E t \in tracks : t.owner_user_id = req.user_id
  /\ users = {req.user_id}


\* the request hands the program a learner id that is present and malformed
MalformedLearnerId(rq) ==
  \/ rq.op \in {"me", "next-lesson"} /\ rq.user_id = BadUuid
  \/ rq.op = "attempt" /\ Has(rq.body, "user_id") /\ rq.body.user_id = BadUuid
  \/ /\ rq.op = "ensure-track"
     /\ rq.key = ADMIN_KEY
     /\ Has(rq.body, "owner_user_id")
     /\ rq.body.owner_user_id = BadUuid

\* C19: every operation that resolves a learner (learner summary,
\* next-lesson, record-attempt, the ensure-track owner) answers a learner id
\* that is present but malformed with the InvalidIdentifier error (a 400), and
\* creates no users, user_track_state or attempts row.
C19_MalformedLearnerIdIsRejected ==
  [][MalformedLearnerId(req')
       => /\ resp'.status = "400"
          /\ users' = users
          /\ user_track_state' = user_track_state
          /\ attempts' = attempts]_vars


\* C20: a request without the configured X-ADMIN-KEY value creates or changes
\* no track and no lesson: create-track, ensure-track and seed-lessons are
\* rejected (401) before any write when the key is missing or wrong.
C20_CatalogWritesNeedAdminKey ==
  [][(/\ req'.op \in {"create-track", "ensure-track", "seed-lessons"}
      /\ req'.key # ADMIN_KEY)
       => /\ resp'.status = "401"
          /\ tracks' = tracks
          /\ lessons' = lessons]_vars


\* call c is an ensure-track call that has been answered
EnsureCallAnswered(c) ==
  /\ calls[c].pc = "done"
  /\ calls[c].op = "ensure-track"
  /\ calls[c].resp.status \in {"200", "201"}

\* C21: of two ensure-track calls for the same slug, run in any interleaving,
\* only one reports created=true, the track table holds one row with the
\* slug, and a well-formed call is answered (as a merge) rather than failed.
C21_OneEnsureTrackCreates ==
  /\ \A c1, c2 \in CallIds :
       (/\ c1 # c2
        /\ EnsureCallAnswered(c1)
        /\ EnsureCallAnswered(c2)
        /\ ToLower(calls[c1].body.slug) = ToLower(calls[c2].body.slug))
         => ~(calls[c1].resp.created /\ calls[c2].resp.created)
  /\ \A c \in CallIds :
       EnsureCallAnswered(c) =>
         Cardinality(getTrackBySlug(ToLower(calls[c].body.slug))) = 1
  /\ \A c \in CallIds :
       (/\ calls[c].pc = "done"
        /\ calls[c].op = "ensure-track"
        /\ EnsureTrackValid(calls[c].body)
        /\ ~Has(calls[c].body, "owner_user_id"))
         => EnsureCallAnswered(c)


\* no call is between its first and its last statement
Quiescent == \A c \in CallIds : calls[c].pc \in {"idle", "done"}

\* the answered attempts of learner user_id that pass
PassingCalls(user_id) ==
  {c \in CallIds :
     /\ calls[c].pc = "done"
     /\ calls[c].op = "attempt"
     /\ calls[c].resp.status = "200"
     /\ calls[c].resp.advanced
     /\ calls[c].resp.user_id = user_id}

\* C22: passing attempts of one learner on one track whose cursor exists
\* commute: however their statements interleave, once all are answered the
\* cursor is max(initial cursor, 1 + largest attempted position); no update
\* is lost.  The initial cursor is 1.
C22_PassingAttemptsCommute ==
  Quiescent =>
    \A s \in user_track_state :
      s.current_lesson_order =
        SetMax({1} \cup {calls[c].lesson.lesson_order + 1 :
                           c \in {d \in PassingCalls(s.user_id) :
                                    calls[d].lesson.track_id = s.track_id}})

\* two passing attempts of the same learner on different lessons have both
\* been answered
C22_Witness ==
  \E c1, c2 \in PassingCalls("u1") :
    /\ calls[c1].lesson.lesson_order < calls[c2].lesson.lesson_order
    /\ calls[c1].created > calls[c2].created
    /\ \E s \in user_track_state :
         s.current_lesson_order = calls[c2].lesson.lesson_order + 1


\* call c commits in this step
Commits(c) == calls[c].pc = "commit" /\ calls'[c].pc = "done"

\* the positions of the lessons of a seed-lessons body
PositionsOf(body) == {body.lessons[i].lesson_order : i \in 1..Len(body.lessons)}

\* C23: with seed-lessons calls of one track overlapping, the lessons table
\* that other operations read changes only when a call commits, and then it
\* takes all of that call's lessons at once: every position of the call holds
\* the call's content (so a position written by two calls holds the content
\* of the one that committed last) and every other row is as it was.
C23_SeedsCommitWhole ==
  [][/\ lessons' # lessons => \E c \in CallIds : Commits(c)
     /\ \A c \in CallIds :
          Commits(c) =>
            LET list == calls[c].body.lessons
                mine(l) == /\ l.track_id = calls[c].track.id
                           /\ l.lesson_order \in PositionsOf(calls[c].body)
            IN
            /\ \A i \in 1..Len(list) :
                 (\A j \in (i + 1)..Len(list) :
                    list[j].lesson_order # list[i].lesson_order)
                   => \E l \in lessons' : mine(l) /\ SameContent(l, list[i])
            /\ {l \in lessons : ~mine(l)} = {l \in lessons' : ~mine(l)}
            /\ LessonPositionsUnique']_vars

\* both calls have committed after running interleaved: the first row of the
\* table was inserted by the call that committed last, the second and third
\* by the other call, and the shared position 2 holds the last committer's
\* title
C23_Witness ==
  /\ \A c \in CallIds : c <= 2 =>
       calls[c].pc = "done" /\ calls[c].op = "seed-lessons"
                            /\ calls[c].resp.status = "200"
  /\ PositionsOf(calls[1].body) = {1, 2}
  /\ PositionsOf(calls[2].body) = {2, 3}
  /\ calls[1].body.lessons[1].title = "Basics"
  /\ calls[2].body.lessons[1].title = "Intro"
  /\ \E l \in lessons : l.id = 1 /\ l.lesson_order = 1 /\ l.title = "Basics"
  /\ \E l \in lessons : l.id = 2 /\ l.lesson_order = 2 /\ l.title = "Basics"
  /\ \E l \in lessons : l.id = 3 /\ l.lesson_order = 3 /\ l.title = "Intro"


\* C24: every request is answered, with a success or with a typed error
\* (400, 401, 404): no failure of a statement inside a handler (constraint
\* violation, malformed id, missing row) leaves the handler unanswered.
C24_EveryRequestIsAnswered ==
  /\ resp.status # "unhandled"
  /\ \A c \in CallIds : calls[c].pc = "done" => calls[c].resp.status # "unhandled"


\* the request was answered with an error
Failed(rq, rs) ==
  /\ rq.op \in {"ensure-track", "seed-lessons", "next-lesson", "attempt"}
  /\ rs.status \notin {"200", "201"}

\* C25: an ensure-track, seed-lessons, next-lesson or attempts request that
\* is answered with an error (or not answered) leaves users, tracks, lessons,
\* attempts and user_track_state exactly as they were before it.
C25_ErrorsChangeNothing ==
  [][Failed(req', resp') =>
       UNCHANGED <<users, tracks, lessons, attempts, user_track_state>>]_vars


\* C26: an ensure-track or seed-lessons request keeps the id and slug of
\* every stored track and the id, track and position of every stored lesson,
\* leaves no two tracks with one slug or id and no two lessons with one
\* position or id, and leaves attempts and user_track_state unchanged.
C26_RedeclaringKeepsLearnerData ==
  [][(req'.op \in {"ensure-track", "seed-lessons"}) =>
       /\ \A t \in tracks : \E t2 \in tracks' : t2.id = t.id /\ t2.slug = t.slug
       /\ \A l \in lessons :
            \E l2 \in lessons' : /\ l2.id = l.id
                                  /\ l2.track_id = l.track_id
                                  /\ l2.lesson_order = l.lesson_order
       /\ \A t1, t2 \in tracks' : (t1.slug = t2.slug \/ t1.id = t2.id) => t1 = t2
       /\ \A l1, l2 \in lessons' : l1.id = l2.id => l1 = l2
       /\ LessonPositionsUnique'
       /\ attempts' = attempts
       /\ user_track_state' = user_track_state]_vars

\* a seed-lessons request was answered 200 for a track a learner has a cursor
\* on, and it wrote the position of a lesson that has an attempt
C26_Witness ==
  /\ SeedAnswered(req, resp, "200")
  /\ \E s \in user_track_state : s.track_id = resp.track.id
  /\ \E a \in attempts :
       /\ LessonById(a.lesson_id).track_id = resp.track.id
       /\ LessonById(a.lesson_id).lesson_order \in PositionsOf(req.body)


\* C27: requests that resolve the same well-formed learner id, not stored
\* before, in any interleaving of their SELECT and INSERT: each of them is
\* answered with success (and /v1/me with that id), and the id is stored.
C27_ConcurrentResolveSucceeds ==
  \A c \in CallIds :
    (calls[c].pc = "done" /\ calls[c].userId \in UserIds) =>
      /\ calls[c].resp.status \in {"200", "201"}
      /\ calls[c].op = "me" => calls[c].resp.user_id = calls[c].userId
      /\ calls[c].userId \in users


\* C28: a next-lesson request changes no track, lesson or attempt and no
\* cursor position; it adds at most the learner and, with the cursor at 1,
\* the user_track_state row of the learner and track it answers for; and a
\* next-lesson request that directly follows one for the same learner and
\* track returns the same lesson.
C28_NextLessonWritesOnlyItsCursorRow ==
  [][(req'.op = "next-lesson") =>
       /\ UNCHANGED <<tracks, lessons, attempts>>
       /\ users \subseteq users'
       /\ Cardinality(users' \ users) <= 1
       /\ resp'.status = "200" => users' \ users \subseteq {resp'.user_id}
       /\ \A s \in user_track_state :
            \E s2 \in user_track_state' :
              /\ s2.user_id = s.user_id
              /\ s2.track_id = s.track_id
              /\ s2.current_lesson_order = s.current_lesson_order
       /\ \A s2 \in user_track_state' :
            \/ \E s \in user_track_state :
                 s.user_id = s2.user_id /\ s.track_id = s2.track_id
            \/ /\ resp'.status = "200"
               /\ s2.user_id = resp'.user_id
               /\ s2.track_id = resp'.track.id
               /\ s2.current_lesson_order = 1
       /\ (/\ req.op = "next-lesson"
           /\ resp.status = "200"
           /\ resp'.status = "200"
           /\ resp'.user_id = resp.user_id
           /\ resp'.track.id = resp.track.id)
            => resp'.next_lesson = resp.next_lesson]_vars

\* a next-lesson request was answered for a learner whose cursor an attempt
\* had moved past 1, with the lesson at that cursor
C28_Witness ==
  /\ req.op = "next-lesson"
  /\ resp.status = "200"
  /\ resp.next_lesson # {}
  /\ \E s \in StateRows(resp.user_id, resp.track.id) :
       /\ s.current_lesson_order > 1
       /\ \E l \in resp.next_lesson : l.lesson_order = s.current_lesson_order
  /\ attempts # {}

=============================================================================
